---- MODULE Spec2Model ----
(***************************************************************************)
(* The authenticator's app-management entry points                         *)
(* (safe_authenticator/src/ffi/apps.rs): auth_rm_revoked_app,              *)
(* auth_revoked_apps, auth_registered_apps and                             *)
(* auth_apps_accessing_mutable_data, run by concurrent callers against the *)
(* versioned config registry, the access container, the apps' private      *)
(* containers and the permission records of one mutable data object.       *)
(* Every network future of a pipeline is one atomic step; the synchronous  *)
(* closures chained on it run in the same step.                            *)
(***************************************************************************)
EXTENDS Integers, Sequences, FiniteSets, TLC

\* ------------------------------------------------------------------ bounds
\* How many times the registry can gain an app during a run.
MaxVersion == 2

AppIds == {"app1", "app2"}
Callers == {1, 2}

\* ------------------------------------------------------------------ values
NoNonce == "no_nonce"
TheNonce == "nonce1"

Ok(v) == [ok |-> TRUE, val |-> v, err |-> "none"]
Err(e) == [ok |-> FALSE, val |-> <<>>, err |-> e]

\* The record the registry keeps for an app: its exchange info and its keys.
AppInfoOf(id) ==
    [info |-> [id |-> id, name |-> <<"name of", id>>],
     keys |-> [enc_key |-> <<"enc", id>>, owner_key |-> <<"sign", id>>]]

ForeignKey == <<"sign", "other">>
SignKeys == {AppInfoOf(id).keys.owner_key : id \in AppIds} \cup {ForeignKey}

\* routing::User: the "anyone" sentinel or an individually keyed principal.
Anyone == [kind |-> "Anyone", key |-> <<>>]
Key(k) == [kind |-> "Key", key |-> k]
Users == {Anyone} \cup {Key(k) : k \in SignKeys}
PermSet == {"Insert"}

\* An access-container entry in the clear: container name -> (info, perms).
NoContainers == << >>
SomeContainers == [c \in {"_documents"} |-> <<"mdinfo", {"Read", "Insert"}>>]

\* Serialisation and symmetric encryption of an access-container entry.
serialise(entry) == <<"ace", entry>>
deserialise(plaintext) ==
    IF Len(plaintext) = 2 /\ plaintext[1] = "ace"
    THEN Ok(plaintext[2]) ELSE Err("DeserializationError")
symmetric_encrypt(plaintext, enc_key) == <<enc_key, plaintext>>
symmetric_decrypt(content, enc_key) ==
    IF Len(content) = 2 /\ content[1] = enc_key
    THEN Ok(content[2]) ELSE Err("DecryptionError")

\* The derived key of an app's entry in the access container.
access_container_enc_key(app_id, enc_key, n) == <<app_id, enc_key, n>>

EmptyContent == << >>
GoodContent(id, entry) == symmetric_encrypt(serialise(entry), AppInfoOf(id).keys.enc_key)
WrongKeyContent(id) == symmetric_encrypt(serialise(SomeContainers), <<"enc", "stranger">>)
JunkContent(id) == symmetric_encrypt(<<"junk">>, AppInfoOf(id).keys.enc_key)

\* What an app's slot of the access container can hold.
ContentsOf(id) ==
    {EmptyContent, GoodContent(id, SomeContainers), GoodContent(id, NoContainers),
     WrongKeyContent(id), JunkContent(id)}
GrantedOrDeleted(id) == {EmptyContent, GoodContent(id, SomeContainers)}

SlotOf(id) == access_container_enc_key(id, AppInfoOf(id).keys.enc_key, TheNonce)

Restrict(f, S) == [x \in S |-> f[x]]

\* All orders in which a HashMap / BTreeMap with key set S can be iterated.
Orders(S) ==
    {o \in [1..Cardinality(S) -> S] : \A i, j \in 1..Cardinality(S) : o[i] = o[j] => i = j}

\* ------------------------------------------------------------------ state
VARIABLES
    store_apps,      \* config registry: app id -> app record
    store_version,   \* version of the registry entry in the config store
    nonce,           \* nonce of the access container's MDataInfo, or NoNonce
    entries,         \* access container: derived key -> [content]
    app_containers,  \* app ids whose private container exists
    md_perms,        \* permission records of the queried object: User -> perms
    call             \* per caller: the pipeline it runs and where it is

vars == <<store_apps, store_version, nonce, entries, app_containers, md_perms, call>>

Idle ==
    [op |-> "none", pc |-> "idle", app_id |-> "", cfg |-> << >>, ver |-> 0,
     perms |-> << >>, res |-> "none", out |-> << >>, teardown |-> "none",
     stale |-> FALSE, wrote |-> FALSE, seen |-> {}, cbs |-> << >>]

Registries == {Restrict([id \in AppIds |-> AppInfoOf(id)], S) : S \in SUBSET AppIds}

\* The access containers in which every slot holds content from contents(id).
EntrySets(contents(_)) ==
    UNION {{es \in [{SlotOf(id) : id \in S} ->
                       {[content |-> c] : c \in UNION {contents(id) : id \in S}}] :
               \A id \in S : es[SlotOf(id)].content \in contents(id)}
           : S \in SUBSET AppIds}

\* Without a nonce no slot can be derived, so nothing was ever stored.
NoEntries == Restrict([k \in {SlotOf(id) : id \in AppIds} |-> [content |-> EmptyContent]], {})

Init ==
    /\ store_apps \in Registries
    /\ store_version = 0
    /\ app_containers = DOMAIN store_apps
    /\ \/ /\ nonce = TheNonce
          /\ entries \in EntrySets(ContentsOf)
          /\ md_perms = [u \in {Anyone, Key(AppInfoOf("app1").keys.owner_key)} |-> PermSet]
       \/ /\ nonce \in {NoNonce, TheNonce}
          /\ entries = NoEntries
          /\ md_perms \in UNION {[S -> {PermSet}] : S \in SUBSET Users}
    /\ call = [c \in Callers |-> Idle]

\* How a joint state of registry and access container classifies the registry.
Classes(apps, ents) ==
    LET withdrawn(id) == SlotOf(id) \notin DOMAIN ents \/ Len(ents[SlotOf(id)].content) = 0
    IN [revoked |-> {id \in DOMAIN apps : withdrawn(id)},
        registered |-> {id \in DOMAIN apps : ~withdrawn(id)}]

\* The caller c moves to `mine`; the stores are left as they are.
Others(c, mine) ==
    [d \in Callers |-> IF d = c THEN mine ELSE call[d]]

\* The caller c (0: another flow of the account) moves to `mine` in a step that
\* leaves the registry as new_apps and the access container as new_entries:
\* every other call has read stores that are no longer the current ones, and a
\* listing in flight has lived through one more joint state.
Touch(c, mine, new_apps, new_entries) ==
    [d \in Callers |->
        IF d = c THEN mine
        ELSE IF call[d].op = "none" THEN call[d]
        ELSE IF call[d].op \in {"revoked", "registered"} /\ call[d].pc = "listed"
             THEN [call[d] EXCEPT !.stale = TRUE,
                                  !.seen = @ \cup {Classes(new_apps, new_entries)}]
        ELSE [call[d] EXCEPT !.stale = TRUE]]

\* Variant: an error ends the pipeline without a callback.
Done_silent_on_error(rec, res) ==
    [rec EXCEPT !.pc = "done", !.res = res,
                !.cbs = IF res = "ok" THEN Append(@, res) ELSE @]

\* The end of a pipeline: o_cb is invoked with the outcome, by call_result_cb!
\* on an error (and on the result of the removal), directly on a listing.
Done(rec, res) == [rec EXCEPT !.pc = "done", !.res = res, !.cbs = Append(@, res)]

\* ------------------------------------------------------------ collaborators
\* config::list_apps: one versioned read of the whole registry.
list_apps == [version |-> store_version, apps |-> store_apps]

\* config::next_version
next_version(v) == v + 1

\* app_auth::app_state: the three-way classification of one app.
app_state(apps, app_id, ents, n) ==
    IF app_id \notin DOMAIN apps THEN Ok("NotAuthenticated")
    ELSE IF n = NoNonce THEN Err("MissingNonce")
    ELSE LET app == apps[app_id]
             key == access_container_enc_key(app.info.id, app.keys.enc_key, n)
         IN IF key \notin DOMAIN ents \/ ents[key].content = EmptyContent
            THEN Ok("Revoked")
            ELSE LET plaintext == symmetric_decrypt(ents[key].content, app.keys.enc_key)
                 IN IF ~plaintext.ok THEN Err(plaintext.err)
                    ELSE LET entry == deserialise(plaintext.val)
                         IN IF ~entry.ok THEN Err(entry.err) ELSE Ok("Authenticated")

\* config::remove_app: the snapshot without app_id, written at new_version;
\* the store accepts the write only as the successor of its current version.
remove_app_result(apps, new_version, app_id) ==
    IF app_id \notin DOMAIN apps THEN Err("UnknownApp")
    ELSE IF new_version # store_version + 1 THEN Err("VersionConflict")
    ELSE Ok(Restrict(apps, DOMAIN apps \ {app_id}))

\* Variant: the guard lets an authenticated app through.
rm_guard_lets_authenticated(state) ==
    CASE state = "Revoked" -> Ok("proceed")
      [] state = "Authenticated" -> Ok("proceed")
      [] state = "NotAuthenticated" -> Err("UnknownApp")

\* Variant: the two refusals are swapped.
rm_guard_swapped(state) ==
    CASE state = "Revoked" -> Ok("proceed")
      [] state = "Authenticated" -> Err("UnknownApp")
      [] state = "NotAuthenticated" -> Err("AppNotRevoked")

\* Variant: the guard lets nothing through.
rm_guard_refuses_revoked(state) ==
    CASE state = "Revoked" -> Err("AppNotRevoked")
      [] state = "Authenticated" -> Err("AppNotRevoked")
      [] state = "NotAuthenticated" -> Err("UnknownApp")

\* The guard of auth_rm_revoked_app on the classified state.
rm_guard(state) ==
    CASE state = "Revoked" -> Ok("proceed")
      [] state = "Authenticated" -> Err("AppNotRevoked")
      [] state = "NotAuthenticated" -> Err("UnknownApp")

\* ------------------------------------------------------ auth_rm_revoked_app
\* Variant: the removal is written at the successor of whatever the store holds now.
rm_new_version_fresh(apps_version) == next_version(store_version)

\* Line 101: the version the removal is written at.
rm_new_version(apps_version) == next_version(apps_version)

rm_list_apps(c) ==
    /\ call[c].pc = "idle"
    /\ \E app_id \in AppIds, fault \in BOOLEAN :
         LET begun == [Idle EXCEPT !.op = "rm", !.app_id = app_id]
             got == list_apps
         IN call' = Others(c,
                IF fault THEN Done(begun, "NetworkError")
                ELSE [begun EXCEPT !.pc = "listed", !.cfg = got.apps, !.ver = got.version])
    /\ UNCHANGED <<store_apps, store_version, nonce, entries, app_containers, md_perms>>

rm_app_state(c) ==
    /\ call[c].op = "rm" /\ call[c].pc = "listed"
    /\ \E fault \in BOOLEAN :
         LET me == call[c]
             st == app_state(me.cfg, me.app_id, entries, nonce)
             guarded == IF st.ok THEN rm_guard(st.val) ELSE st
         IN call' = Others(c,
                IF fault /\ me.app_id \in DOMAIN me.cfg THEN Done(me, "NetworkError")
                ELSE IF guarded.ok THEN [me EXCEPT !.pc = "guarded"]
                ELSE Done(me, guarded.err))
    /\ UNCHANGED <<store_apps, store_version, nonce, entries, app_containers, md_perms>>

\* Variant: a refused write is passed over and the pipeline goes on to the teardown.
rm_remove_app_ignoring_refusal(c) ==
    /\ call[c].op = "rm" /\ call[c].pc = "guarded"
    /\ \E fault \in BOOLEAN :
         LET me == call[c]
             w == remove_app_result(me.cfg, rm_new_version(me.ver), me.app_id)
         IN IF fault \/ ~w.ok
            THEN /\ call' = Others(c, [me EXCEPT !.pc = "removed"])
                 /\ UNCHANGED <<store_apps, store_version>>
            ELSE /\ store_apps' = w.val
                 /\ store_version' = rm_new_version(me.ver)
                 /\ call' = Touch(c, [me EXCEPT !.pc = "removed", !.wrote = TRUE], w.val, entries)
    /\ UNCHANGED <<nonce, entries, app_containers, md_perms>>

\* Lines 100-102: the registry without the app, written at the next version.
rm_remove_app(c) ==
    /\ call[c].op = "rm" /\ call[c].pc = "guarded"
    /\ \E fault \in BOOLEAN :
         LET me == call[c]
             w == remove_app_result(me.cfg, rm_new_version(me.ver), me.app_id)
         IN IF fault \/ ~w.ok
            THEN /\ call' = Others(c, Done(me, IF fault THEN "NetworkError" ELSE w.err))
                 /\ UNCHANGED <<store_apps, store_version>>
            ELSE /\ store_apps' = w.val
                 /\ store_version' = rm_new_version(me.ver)
                 /\ call' = Touch(c, [me EXCEPT !.pc = "removed", !.wrote = TRUE], w.val, entries)
    /\ UNCHANGED <<nonce, entries, app_containers, md_perms>>

\* Variant: a failed teardown is swallowed and the call reports success.
rm_app_container_remove_swallowing(c) ==
    /\ call[c].op = "rm" /\ call[c].pc = "removed"
    /\ \E fault \in BOOLEAN :
         LET me == call[c]
         IN IF fault
            THEN /\ call' = Others(c, Done([me EXCEPT !.teardown = "failed"], "ok"))
                 /\ UNCHANGED app_containers
            ELSE /\ call' = Others(c, Done([me EXCEPT !.teardown = "ok"], "ok"))
                 /\ app_containers' = app_containers \ {me.app_id}
    /\ UNCHANGED <<store_apps, store_version, nonce, entries, md_perms>>

\* Lines 103-107: the teardown of the app's container, then the callback.
rm_app_container_remove(c) ==
    /\ call[c].op = "rm" /\ call[c].pc = "removed"
    /\ \E fault \in BOOLEAN :
         LET me == call[c]
         IN IF fault
            THEN /\ call' = Others(c, Done([me EXCEPT !.teardown = "failed"], "TeardownError"))
                 /\ UNCHANGED app_containers
            ELSE /\ call' = Others(c, Done([me EXCEPT !.teardown = "ok"], "ok"))
                 /\ app_containers' = app_containers \ {me.app_id}
    /\ UNCHANGED <<store_apps, store_version, nonce, entries, md_perms>>

\* -------------------------------------------------------- auth_revoked_apps
\* The closure of lines 138-162 after the nonce was found: the loop over
\* auth_cfg.values(), in the iteration order `order`.
\* Variant: only a missing entry counts as revoked, a deleted (empty) one does not.
is_revoked_absent_only(ents, key) == key \notin DOMAIN ents

\* Lines 149-152: not in the access container, or the entry is empty.
is_revoked(ents, key) ==
    IF key \in DOMAIN ents THEN ents[key].content = EmptyContent ELSE TRUE

RECURSIVE revoked_loop(_, _, _, _, _)
revoked_loop(order, auth_cfg, ents, n, apps) ==
    IF order = << >> THEN Ok(apps)
    ELSE LET app == auth_cfg[Head(order)]
             key == access_container_enc_key(app.info.id, app.keys.enc_key, n)
             revoked == is_revoked(ents, key)
         IN revoked_loop(Tail(order), auth_cfg, ents, n,
                         IF revoked THEN Append(apps, app.info) ELSE apps)

\* Variant: the nonce is asked for only when there is an app to resolve.
revoked_collect_lazy_nonce(order, auth_cfg, ents, n) ==
    IF order = << >> THEN Ok(<< >>)
    ELSE IF n = NoNonce THEN Err("MissingNonce")
    ELSE revoked_loop(order, auth_cfg, ents, n, << >>)

\* Lines 138-157: the nonce first, then the loop.
revoked_collect(order, auth_cfg, ents, n) ==
    IF n = NoNonce THEN Err("MissingNonce")
    ELSE revoked_loop(order, auth_cfg, ents, n, << >>)

revoked_list_apps(c) ==
    /\ call[c].pc = "idle"
    /\ \E fault \in BOOLEAN :
         LET begun == [Idle EXCEPT !.op = "revoked"]
         IN call' = Others(c,
                IF fault THEN Done(begun, "NetworkError")
                ELSE [begun EXCEPT !.pc = "listed", !.cfg = list_apps.apps,
                                   !.seen = {Classes(store_apps, entries)}])
    /\ UNCHANGED <<store_apps, store_version, nonce, entries, app_containers, md_perms>>

\* Variant: the listing also drops the apps it found revoked from the registry.
revoked_list_mdata_entries_purging(c) ==
    /\ call[c].op = "revoked" /\ call[c].pc = "listed"
    /\ \E fault \in BOOLEAN, order \in Orders(DOMAIN call[c].cfg) :
         LET me == call[c]
             r == revoked_collect(order, me.cfg, entries, nonce)
             found == IF r.ok THEN {r.val[i].id : i \in 1..Len(r.val)} ELSE {}
         IN /\ call' = Others(c,
                   IF fault THEN Done(me, "NetworkError")
                   ELSE IF r.ok THEN Done([me EXCEPT !.out = r.val], "ok")
                   ELSE Done(me, r.err))
            /\ store_apps' = Restrict(store_apps, DOMAIN store_apps \ found)
    /\ UNCHANGED <<store_version, nonce, entries, app_containers, md_perms>>

revoked_list_mdata_entries(c) ==
    /\ call[c].op = "revoked" /\ call[c].pc = "listed"
    /\ \E fault \in BOOLEAN, order \in Orders(DOMAIN call[c].cfg) :
         LET me == call[c]
             r == revoked_collect(order, me.cfg, entries, nonce)
         IN call' = Others(c,
                IF fault THEN Done(me, "NetworkError")
                ELSE IF r.ok THEN Done([me EXCEPT !.out = r.val], "ok")
                ELSE Done(me, r.err))
    /\ UNCHANGED <<store_apps, store_version, nonce, entries, app_containers, md_perms>>

\* ----------------------------------------------------- auth_registered_apps
\* containers_into_vec over the decrypted entry, the MDataInfo dropped.
containers_into_vec(app_access) ==
    {<<name, app_access[name][2]>> : name \in DOMAIN app_access}

\* Variant: an entry that cannot be read is passed over like a missing one.
has_entry_skip_unreadable(ents, key) ==
    IF key \in DOMAIN ents
    THEN /\ ents[key].content # EmptyContent
         /\ symmetric_decrypt(ents[key].content, <<"enc", key[1]>>).ok
         /\ deserialise(symmetric_decrypt(ents[key].content, <<"enc", key[1]>>).val).ok
    ELSE FALSE

\* Variant: an empty-permission grant is taken for a deleted entry.
has_entry_with_containers(ents, key) ==
    IF key \in DOMAIN ents
    THEN /\ ents[key].content # EmptyContent
         /\ ents[key].content # symmetric_encrypt(serialise(NoContainers), <<"enc", key[1]>>)
    ELSE FALSE

\* Lines 210-213: an entry that is there and not empty.
has_entry(ents, key) ==
    IF key \in DOMAIN ents THEN ents[key].content # EmptyContent ELSE FALSE

RECURSIVE registered_loop(_, _, _, _, _)
registered_loop(order, auth_cfg, ents, n, apps) ==
    IF order = << >> THEN Ok(apps)
    ELSE LET app == auth_cfg[Head(order)]
             key == access_container_enc_key(app.info.id, app.keys.enc_key, n)
             present == has_entry(ents, key)
         IN IF ~present THEN registered_loop(Tail(order), auth_cfg, ents, n, apps)
            ELSE LET plaintext == symmetric_decrypt(ents[key].content, app.keys.enc_key)
                 IN IF ~plaintext.ok THEN Err(plaintext.err)
                    ELSE LET app_access == deserialise(plaintext.val)
                         IN IF ~app_access.ok THEN Err(app_access.err)
                            ELSE registered_loop(Tail(order), auth_cfg, ents, n,
                                    Append(apps, [app_info |-> app.info,
                                                  containers |-> containers_into_vec(app_access.val)]))

registered_collect(order, auth_cfg, ents, n) ==
    IF n = NoNonce THEN Err("MissingNonce")
    ELSE registered_loop(order, auth_cfg, ents, n, << >>)

registered_list_apps(c) ==
    /\ call[c].pc = "idle"
    /\ \E fault \in BOOLEAN :
         LET begun == [Idle EXCEPT !.op = "registered"]
         IN call' = Others(c,
                IF fault THEN Done(begun, "NetworkError")
                ELSE [begun EXCEPT !.pc = "listed", !.cfg = list_apps.apps,
                                   !.seen = {Classes(store_apps, entries)}])
    /\ UNCHANGED <<store_apps, store_version, nonce, entries, app_containers, md_perms>>

registered_list_mdata_entries(c) ==
    /\ call[c].op = "registered" /\ call[c].pc = "listed"
    /\ \E fault \in BOOLEAN, order \in Orders(DOMAIN call[c].cfg) :
         LET me == call[c]
             r == registered_collect(order, me.cfg, entries, nonce)
         IN call' = Others(c,
                IF fault THEN Done(me, "NetworkError")
                ELSE IF r.ok THEN Done([me EXCEPT !.out = r.val], "ok")
                ELSE Done(me, r.err))
    /\ UNCHANGED <<store_apps, store_version, nonce, entries, app_containers, md_perms>>

\* ----------------------------------------- auth_apps_accessing_mutable_data
\* The registry re-keyed by owner key (lines 273-278).
\* Variant: only the apps that hold an access-container entry are joined.
apps_by_owner_key_active(apps) ==
    LET active == {id \in DOMAIN apps :
                      /\ SlotOf(id) \in DOMAIN entries
                      /\ entries[SlotOf(id)].content # EmptyContent}
    IN [k \in {apps[id].keys.owner_key : id \in active} |->
           (CHOOSE id \in active : apps[id].keys.owner_key = k)]

apps_by_owner_key(apps) ==
    [k \in {apps[id].keys.owner_key : id \in DOMAIN apps} |->
        (CHOOSE id \in DOMAIN apps : apps[id].keys.owner_key = k)]

\* Variant: every principal is taken for a keyed one.
is_key_user_always(user) == TRUE

\* Line 286: `if let Key(public_key) = user`.
is_key_user(user) == user.kind = "Key"

RECURSIVE app_access_loop(_, _, _, _, _)
app_access_loop(order, permissions, apps, by_key, app_access_vec) ==
    IF order = << >> THEN app_access_vec
    ELSE LET user == Head(order)
             perm_set == permissions[user]
         IN IF is_key_user(user)
            THEN LET public_key == user.key
                     app_access ==
                        IF public_key \in DOMAIN by_key
                        THEN [sign_key |-> public_key, permissions |-> perm_set,
                              name |-> <<"Some", apps[by_key[public_key]].info.name>>,
                              app_id |-> <<"Some", apps[by_key[public_key]].info.id>>]
                        ELSE [sign_key |-> public_key, permissions |-> perm_set,
                              name |-> <<"None">>, app_id |-> <<"None">>]
                 IN app_access_loop(Tail(order), permissions, apps, by_key,
                                    Append(app_access_vec, app_access))
            ELSE app_access_loop(Tail(order), permissions, apps, by_key, app_access_vec)

app_access_collect(order, permissions, apps) ==
    app_access_loop(order, permissions, apps, apps_by_owner_key(apps), << >>)

\* The two futures of the join complete in either order; the closure runs
\* when the second has.
perms_first(c) ==
    /\ call[c].pc = "idle"
    /\ \E fault \in BOOLEAN, which \in {"permissions", "apps"} :
         LET begun == [Idle EXCEPT !.op = "perms"]
         IN call' = Others(c,
                IF fault THEN Done(begun, "NetworkError")
                ELSE IF which = "permissions"
                     THEN [begun EXCEPT !.pc = "have_permissions", !.perms = md_perms]
                     ELSE [begun EXCEPT !.pc = "have_apps", !.cfg = list_apps.apps])
    /\ UNCHANGED <<store_apps, store_version, nonce, entries, app_containers, md_perms>>

perms_second(c) ==
    /\ call[c].op = "perms" /\ call[c].pc \in {"have_permissions", "have_apps"}
    /\ \E fault \in BOOLEAN :
         LET me == call[c]
             permissions == IF me.pc = "have_permissions" THEN me.perms ELSE md_perms
             apps == IF me.pc = "have_apps" THEN me.cfg ELSE list_apps.apps
         IN \E order \in Orders(DOMAIN permissions) :
              call' = Others(c,
                IF fault THEN Done(me, "NetworkError")
                ELSE Done([me EXCEPT !.out = app_access_collect(order, permissions, apps)], "ok"))
    /\ UNCHANGED <<store_apps, store_version, nonce, entries, app_containers, md_perms>>

\* ---------------------------------------------- other flows of the account
\* Registration of an app: the registry gains its record at the next version.
register_app(id) ==
    /\ id \notin DOMAIN store_apps
    /\ store_version < MaxVersion
    /\ store_apps' = [x \in DOMAIN store_apps \cup {id} |-> AppInfoOf(x)]
    /\ store_version' = next_version(store_version)
    /\ call' = Touch(0, Idle, [x \in DOMAIN store_apps \cup {id} |-> AppInfoOf(x)], entries)
    /\ UNCHANGED <<nonce, entries, app_containers, md_perms>>

\* A grant: the app's access-container entry is written, encrypted.
put_entry(id) ==
    /\ nonce # NoNonce
    /\ id \in DOMAIN store_apps
    /\ \E entry \in {SomeContainers} :
         LET content == [content |-> GoodContent(id, entry)]
         IN /\ (IF SlotOf(id) \in DOMAIN entries THEN entries[SlotOf(id)] # content ELSE TRUE)
            /\ entries' = [k \in DOMAIN entries \cup {SlotOf(id)} |->
                              IF k = SlotOf(id) THEN content ELSE entries[k]]
            /\ call' = Touch(0, Idle, store_apps,
                             [k \in DOMAIN entries \cup {SlotOf(id)} |->
                                 IF k = SlotOf(id) THEN content ELSE entries[k]])
    /\ UNCHANGED <<store_apps, store_version, nonce, app_containers, md_perms>>

\* A revocation: the app's entry is deleted, which leaves it empty.
delete_entry(id) ==
    /\ SlotOf(id) \in DOMAIN entries
    /\ entries[SlotOf(id)].content # EmptyContent
    /\ entries' = [entries EXCEPT ![SlotOf(id)] = [content |-> EmptyContent]]
    /\ call' = Touch(0, Idle, store_apps,
                     [entries EXCEPT ![SlotOf(id)] = [content |-> EmptyContent]])
    /\ UNCHANGED <<store_apps, store_version, nonce, app_containers, md_perms>>

\* The four entry points, run by the callers against stores nothing else writes.
Next ==
    \E c \in Callers :
        \/ rm_list_apps(c)
        \/ rm_app_state(c)
        \/ rm_remove_app(c)
        \/ rm_app_container_remove(c)
        \/ revoked_list_apps(c)
        \/ revoked_list_mdata_entries(c)
        \/ registered_list_apps(c)
        \/ registered_list_mdata_entries(c)
        \/ perms_first(c)
        \/ perms_second(c)

Spec == Init /\ [][Next]_vars

\* The same callers while the account's other flows register apps, grant and
\* revoke access; the stores start sound and with the nonce in place.
InitEnv ==
    /\ store_apps = [id \in AppIds |-> AppInfoOf(id)]
    /\ store_version = 0
    /\ app_containers = DOMAIN store_apps
    /\ nonce = TheNonce
    /\ entries \in EntrySets(GrantedOrDeleted)
    /\ md_perms = [u \in {Anyone, Key(ForeignKey)} |-> PermSet]
    /\ call = [c \in Callers |-> Idle]

NextEnv ==
    \/ Next
    \/ \E id \in AppIds :
        \/ register_app(id)
        \/ put_entry(id)
        \/ delete_entry(id)

SpecEnv == InitEnv /\ [][NextEnv]_vars

\* ------------------------------------------------------------- vocabulary
\* The slot of app id in the access container, and what it holds now.
KeyNow(id) == access_container_enc_key(id, AppInfoOf(id).keys.enc_key, nonce)
EntryAbsent(id) == KeyNow(id) \notin DOMAIN entries
EntryEmpty(id) == ~EntryAbsent(id) /\ Len(entries[KeyNow(id)].content) = 0
EntryReadable(id) ==
    /\ ~EntryAbsent(id) /\ ~EntryEmpty(id)
    /\ \E e \in {SomeContainers, NoContainers} : entries[KeyNow(id)].content = GoodContent(id, e)
EntryMalformed(id) == ~EntryAbsent(id) /\ ~EntryEmpty(id) /\ ~EntryReadable(id)
EntryGrantsNothing(id) ==
    ~EntryAbsent(id) /\ entries[KeyNow(id)].content = GoodContent(id, NoContainers)

Finished(c, op) == call[c].op = op /\ call[c].pc = "done"
Succeeded(c, op) == Finished(c, op) /\ call[c].res = "ok"
\* The registry and the access container are still what call c read.
Fresh(c) == ~call[c].stale
RevokedIds(c) == {call[c].out[i].id : i \in 1..Len(call[c].out)}
RegisteredIds(c) == {call[c].out[i].app_info.id : i \in 1..Len(call[c].out)}
TransportFaults == {"NetworkError", "TeardownError"}

\* C1: on one joint snapshot of registry and access container on which both
\* listings succeed, every registry app id is in exactly one of the outputs of
\* auth_revoked_apps and auth_registered_apps, once, and no other id is in either.
C1_Partition ==
    \A c, d \in Callers :
        (Succeeded(c, "revoked") /\ Succeeded(d, "registered") /\ Fresh(c) /\ Fresh(d))
        => /\ RevokedIds(c) \cap RegisteredIds(d) = {}
           /\ RevokedIds(c) \cup RegisteredIds(d) = DOMAIN store_apps
           /\ Len(call[c].out) + Len(call[d].out) = Cardinality(DOMAIN store_apps)

C1_Witness ==
    \E c, d \in Callers :
        /\ Succeeded(c, "revoked") /\ Succeeded(d, "registered") /\ Fresh(c) /\ Fresh(d)
        /\ RevokedIds(c) # {} /\ RegisteredIds(d) # {}

EntryAbsentOrEmpty(id) == EntryAbsent(id) \/ EntryEmpty(id)
FaultFree(c) == call[c].res \notin TransportFaults
InSnapshot(c) == call[c].app_id \in DOMAIN call[c].cfg

\* Two auth_rm_revoked_app calls on one app id that is in the registry and revoked.
Race(c, d) ==
    /\ c # d
    /\ call[c].op = "rm" /\ call[d].op = "rm"
    /\ call[c].app_id = call[d].app_id
    /\ nonce # NoNonce
    /\ EntryAbsentOrEmpty(call[c].app_id)
    /\ InSnapshot(c)

\* C2, as claimed: two concurrent auth_rm_revoked_app calls on the same revoked
\* app end, under every interleaving, as one success and one VersionConflict;
\* the call that does not win fails with VersionConflict.
C2_OneSuccessOneVersionConflict ==
    \A c, d \in Callers :
        Race(c, d) =>
            /\ (Finished(c, "rm") /\ Finished(d, "rm") /\ FaultFree(c) /\ FaultFree(d))
                => {call[c].res, call[d].res} = {"ok", "VersionConflict"}
            /\ (call[c].wrote /\ Finished(d, "rm") /\ FaultFree(d))
                => call[d].res = "VersionConflict"

\* C2, amended: the two calls never both succeed and never both write the
\* registry; when neither meets a transport or teardown failure exactly one
\* succeeds, and the other fails with VersionConflict if it listed the registry
\* before the winner's write and with UnknownApp if it listed it after.
C2_OneSuccessOneRefusal ==
    \A c, d \in Callers :
        (c # d /\ call[c].op = "rm" /\ call[d].op = "rm" /\ call[c].app_id = call[d].app_id)
        => /\ ~(call[c].wrote /\ call[d].wrote)
           /\ ~(call[c].res = "ok" /\ call[d].res = "ok")
           /\ (Race(c, d) /\ Finished(c, "rm") /\ Finished(d, "rm")
                 /\ FaultFree(c) /\ FaultFree(d) /\ call[c].res = "ok")
                => call[d].res = (IF InSnapshot(d) THEN "VersionConflict" ELSE "UnknownApp")
           /\ (Race(c, d) /\ Finished(c, "rm") /\ Finished(d, "rm")
                 /\ FaultFree(c) /\ FaultFree(d))
                => (call[c].res = "ok" \/ call[d].res = "ok")

C2_Witness ==
    \E c, d \in Callers :
        /\ Race(c, d) /\ Finished(c, "rm") /\ Finished(d, "rm")
        /\ call[c].res = "ok" /\ call[d].res = "VersionConflict"

\* C3: auth_rm_revoked_app on a registry app whose access-container entry is
\* non-empty (Authenticated) fails with "App is not revoked"; it writes nothing
\* and tears nothing down, so registry, version and the app's container stay.
C3_AuthenticatedRefused ==
    \A c \in Callers :
        (Finished(c, "rm") /\ Fresh(c) /\ InSnapshot(c) /\ EntryReadable(call[c].app_id)
           /\ call[c].res # "NetworkError")
        => /\ call[c].res = "AppNotRevoked"
           /\ ~call[c].wrote /\ call[c].teardown = "none"
           /\ store_apps = call[c].cfg /\ store_version = call[c].ver
           /\ call[c].app_id \in app_containers

C3_Witness ==
    \E c \in Callers :
        /\ Finished(c, "rm") /\ Fresh(c) /\ InSnapshot(c) /\ EntryReadable(call[c].app_id)
        /\ call[c].res = "AppNotRevoked"

\* C4: an app id that is not in the registry is NotAuthenticated whatever the
\* access container holds, and auth_rm_revoked_app on it fails with UnknownApp
\* without writing the registry (contents and version unchanged).
C4_UnknownAppRefused ==
    /\ \A id \in AppIds \ DOMAIN store_apps :
          app_state(store_apps, id, entries, nonce) = Ok("NotAuthenticated")
    /\ \A c \in Callers :
          (call[c].op = "rm" /\ call[c].pc \notin {"idle", "listed"} /\ ~InSnapshot(c)
             /\ call[c].res # "NetworkError")
          => /\ call[c].pc = "done" /\ call[c].res = "UnknownApp"
             /\ ~call[c].wrote /\ call[c].teardown = "none"
             /\ Fresh(c) => (store_apps = call[c].cfg /\ store_version = call[c].ver)

C4_Witness ==
    \E c \in Callers :
        /\ Finished(c, "rm") /\ ~InSnapshot(c) /\ call[c].res = "UnknownApp"
        /\ ~EntryAbsent(call[c].app_id) /\ ~EntryEmpty(call[c].app_id)
        /\ store_apps = call[c].cfg /\ store_version = call[c].ver

\* C5: for a registry app whose access-container entry is absent or present
\* with empty content, auth_revoked_apps emits the app, auth_registered_apps
\* does not, and auth_rm_revoked_app, run with no other writer and no transport
\* or teardown failure, succeeds and leaves the app out of the registry.
C5_RevokedListedAndRemovable ==
    \A c \in Callers : \A id \in AppIds :
        (nonce # NoNonce /\ EntryAbsentOrEmpty(id) /\ Fresh(c) /\ id \in DOMAIN call[c].cfg)
        => /\ (Finished(c, "revoked") /\ FaultFree(c))
                => (call[c].res = "ok" /\ id \in RevokedIds(c))
           /\ Finished(c, "registered") => id \notin RegisteredIds(c)
           /\ (Finished(c, "rm") /\ call[c].app_id = id /\ FaultFree(c))
                => (call[c].res = "ok" /\ id \notin DOMAIN store_apps /\ call[c].wrote
                    /\ store_version = call[c].ver + 1)

C5_Witness ==
    \E c, d \in Callers : \E id \in AppIds :
        /\ EntryEmpty(id) /\ Succeeded(c, "rm") /\ call[c].app_id = id /\ Fresh(c)
        /\ id \notin DOMAIN store_apps
        /\ Succeeded(d, "revoked") /\ id \in RevokedIds(d)

\* C6, as claimed: a registry app is Revoked (emitted by auth_revoked_apps, not
\* by auth_registered_apps) iff its entry is absent or decrypts/deserialises to
\* an empty permission set (an empty entry counted as such); otherwise it is
\* Authenticated (emitted by auth_registered_apps).
RevokedAsClaimed(id) == EntryAbsentOrEmpty(id) \/ EntryGrantsNothing(id)

C6_RevokedIffNoPermissions ==
    \A c \in Callers : \A id \in DOMAIN store_apps :
        (Fresh(c) /\ nonce # NoNonce)
        => /\ Succeeded(c, "revoked") => (id \in RevokedIds(c) <=> RevokedAsClaimed(id))
           /\ Succeeded(c, "registered") => (id \in RegisteredIds(c) <=> ~RevokedAsClaimed(id))

\* C6, amended: a registry app is emitted by auth_revoked_apps iff its entry is
\* absent or its stored content is empty (zero length); every app with a
\* non-empty entry, one that decrypts to an empty permission set included, is
\* emitted by auth_registered_apps and not by auth_revoked_apps, and
\* auth_registered_apps succeeds whenever no registry app's entry is malformed.
C6_RevokedIffNoContent ==
    \A c \in Callers :
        (Fresh(c) /\ nonce # NoNonce)
        => /\ \A id \in DOMAIN store_apps :
                /\ Succeeded(c, "revoked") => (id \in RevokedIds(c) <=> EntryAbsentOrEmpty(id))
                /\ Succeeded(c, "registered")
                     => (id \in RegisteredIds(c) <=> ~EntryAbsentOrEmpty(id))
           /\ (Finished(c, "registered") /\ FaultFree(c)
                 /\ \A id \in DOMAIN store_apps : ~EntryMalformed(id))
                => call[c].res = "ok"

C6_Witness ==
    \E c, d \in Callers : \E id \in DOMAIN store_apps :
        /\ Fresh(c) /\ Fresh(d) /\ EntryGrantsNothing(id)
        /\ Succeeded(c, "registered") /\ id \in RegisteredIds(c)
        /\ Succeeded(d, "revoked") /\ id \notin RevokedIds(d)

\* C7: auth_apps_accessing_mutable_data emits nothing for the "anyone"
\* principal; every keyed principal with a permission record appears exactly
\* once with its permission set, with app id and name iff its key is the owner
\* key of a registry app, and with the key and permissions only otherwise.
OwnersOf(k) == {id \in DOMAIN store_apps : store_apps[id].keys.owner_key = k}

C7_PermissionHolders ==
    \A c \in Callers :
        (Succeeded(c, "perms") /\ Fresh(c))
        => LET out == call[c].out
               keyed == {u \in DOMAIN md_perms : u.kind = "Key"}
           IN /\ Len(out) = Cardinality(keyed)
              /\ \A i \in 1..Len(out) : Key(out[i].sign_key) \in keyed
              /\ \A u \in keyed :
                    /\ Cardinality({i \in 1..Len(out) : out[i].sign_key = u.key}) = 1
                    /\ \A i \in 1..Len(out) :
                          out[i].sign_key = u.key
                          => /\ out[i].permissions = md_perms[u]
                             /\ IF OwnersOf(u.key) = {}
                                THEN out[i].app_id = <<"None">> /\ out[i].name = <<"None">>
                                ELSE \E id \in OwnersOf(u.key) :
                                        /\ out[i].app_id = <<"Some", id>>
                                        /\ out[i].name = <<"Some", store_apps[id].info.name>>

C7_Witness ==
    \E c \in Callers :
        /\ Succeeded(c, "perms") /\ Fresh(c) /\ Anyone \in DOMAIN md_perms
        /\ \E i, j \in 1..Len(call[c].out) :
              call[c].out[i].app_id = <<"None">> /\ call[c].out[j].app_id # <<"None">>

\* C8, as claimed: in auth_revoked_apps and in auth_registered_apps, a registry
\* app whose entry is non-empty but malformed makes the whole call fail with
\* an error and no list.
HasMalformed(c) == \E id \in DOMAIN call[c].cfg : EntryMalformed(id)

GuardProceeded(d) == call[d].pc = "guarded"
GuardRefused(d) ==
    /\ call[d].pc = "done"
    /\ call[d].res \in {"AppNotRevoked", "UnknownApp", "MissingNonce",
                        "DecryptionError", "DeserializationError"}

C9_ListingAgreesWithGuard ==
    \A c, d \in Callers :
        (Succeeded(c, "revoked") /\ Fresh(c) /\ call[d].op = "rm" /\ Fresh(d) /\ ~call[d].wrote)
        => /\ GuardProceeded(d) => call[d].app_id \in RevokedIds(c)
           /\ GuardRefused(d) => call[d].app_id \notin RevokedIds(c)

C9_Witness ==
    \E c, d \in Callers :
        /\ Succeeded(c, "revoked") /\ Fresh(c) /\ call[d].op = "rm" /\ Fresh(d)
        /\ call[d].pc = "guarded" /\ call[d].app_id \in RevokedIds(c)
        /\ EntryEmpty(call[d].app_id)

\* C10: under concurrent grants, revocations and removals between a listing's
\* read of the registry and its read of the access container, the output of
\* auth_revoked_apps / auth_registered_apps is the classification of one joint
\* state of the two stores that existed during the call.
C10_ListingIsOneJointState ==
    \A c \in Callers :
        /\ Succeeded(c, "revoked") => \E j \in call[c].seen : RevokedIds(c) = j.revoked
        /\ Succeeded(c, "registered") => \E j \in call[c].seen : RegisteredIds(c) = j.registered

\* C11: when the access container carries no nonce, auth_revoked_apps and
\* auth_registered_apps fail with the missing-nonce error and emit no list,
\* whatever the registry holds, the empty registry included (a transport
\* failure of a read that comes first is the only other outcome).
C11_MissingNonceIsFatal ==
    \A c \in Callers :
        ((Finished(c, "revoked") \/ Finished(c, "registered")) /\ nonce = NoNonce)
        => /\ call[c].out = << >>
           /\ call[c].res \in {"MissingNonce", "NetworkError"}
           /\ FaultFree(c) => call[c].res = "MissingNonce"

C11_Witness ==
    \E c, d \in Callers :
        /\ nonce = NoNonce
        /\ Finished(c, "revoked") /\ call[c].res = "MissingNonce" /\ DOMAIN call[c].cfg = {}
        /\ Finished(d, "registered") /\ call[d].res = "MissingNonce" /\ DOMAIN call[d].cfg = {}

\* A step of caller c's pipeline: its position moves.
StepOf(c) == call'[c].pc # call[c].pc
QueryOps == {"revoked", "registered", "perms"}

\* C12: auth_revoked_apps, auth_registered_apps and
\* auth_apps_accessing_mutable_data are read-only: no step of theirs, in a
\* successful or a failing run, changes the registry, its version, the access
\* container or the permission records of the queried object.
C12_QueriesAreReadOnly ==
    [][\A c \in Callers :
          (StepOf(c) /\ call'[c].op \in QueryOps)
          => UNCHANGED <<store_apps, store_version, nonce, entries, md_perms>>]_vars

C12_Witness ==
    \E c, d \in Callers :
        /\ Succeeded(c, "revoked") /\ call[c].out # << >>
        /\ Finished(d, "registered") /\ call[d].res = "DecryptionError"

\* The order of the steps of auth_rm_revoked_app.
RmOrder ==
    {<<"idle", "listed">>, <<"idle", "done">>, <<"listed", "guarded">>, <<"listed", "done">>,
     <<"guarded", "removed">>, <<"guarded", "done">>, <<"removed", "done">>}
EarlyFailures ==
    {"NetworkError", "MissingNonce", "DecryptionError", "DeserializationError",
     "AppNotRevoked", "UnknownApp", "VersionConflict"}

\* C13: one auth_rm_revoked_app call goes list -> classify/guard -> registry
\* removal -> container teardown; the teardown is invoked only after that
\* call's removal succeeded, never when the call failed earlier, and a
\* VersionConflict ends the call without another attempt.
C13_TeardownOnlyAfterRemoval ==
    [][\A c \in Callers :
          (StepOf(c) /\ call'[c].op = "rm")
          => /\ <<call[c].pc, call'[c].pc>> \in RmOrder
             /\ call'[c].wrote # call[c].wrote => call[c].pc = "guarded"
             /\ call'[c].teardown # "none" => (call[c].pc = "removed" /\ call[c].wrote)
             /\ (call'[c].pc = "done" /\ call'[c].res \in EarlyFailures)
                  => (~call'[c].wrote /\ call'[c].teardown = "none")
             /\ (call'[c].pc = "done" /\ call'[c].res = "VersionConflict")
                  => (call[c].pc = "guarded" /\ UNCHANGED <<store_apps, store_version>>)]_vars

C13_Witness ==
    \E c, d \in Callers :
        /\ Succeeded(c, "rm") /\ call[c].teardown = "ok" /\ call[c].wrote
        /\ Finished(d, "rm") /\ call[d].res = "VersionConflict" /\ call[d].teardown = "none"

\* C14: when the teardown fails after the registry removal succeeded, the
\* call reports an error and the registry is not rolled back: the app stays
\* removed, at the advanced version.
C14_NoRollbackOnTeardownFailure ==
    \A c \in Callers :
        (Finished(c, "rm") /\ call[c].teardown = "failed")
        => /\ call[c].res = "TeardownError"
           /\ call[c].wrote
           /\ Fresh(c) => /\ call[c].app_id \notin DOMAIN store_apps
                          /\ store_version = call[c].ver + 1

C14_Witness ==
    \E c \in Callers :
        /\ Finished(c, "rm") /\ call[c].teardown = "failed" /\ Fresh(c)
        /\ call[c].app_id \notin DOMAIN store_apps /\ store_version = call[c].ver + 1

\* The step in which call c's registry write lands.
WriteLands(c) == StepOf(c) /\ call'[c].op = "rm" /\ ~call[c].wrote /\ call'[c].wrote

\* C15: the registry write of auth_rm_revoked_app removes exactly the target
\* app from the registry as it is in the store right before the write: every
\* other record of the store is kept, so a concurrent update is never
\* overwritten from a stale snapshot (such a write is refused instead).
C15_RemovesExactlyTheTarget ==
    [][\A c \in Callers :
          /\ WriteLands(c)
               => /\ call[c].app_id \in DOMAIN store_apps
                  /\ store_apps' = Restrict(store_apps, DOMAIN store_apps \ {call[c].app_id})
          /\ (StepOf(c) /\ call'[c].op = "rm" /\ ~WriteLands(c)) => UNCHANGED store_apps]_vars

C15_Witness ==
    \E c, d \in Callers :
        /\ Succeeded(c, "rm") /\ call[c].wrote
        /\ DOMAIN store_apps = AppIds \ {call[c].app_id}
        /\ call[d].app_id \in DOMAIN store_apps
        /\ Finished(d, "rm") /\ call[d].res = "VersionConflict"
        /\ call[d].app_id # call[c].app_id

\* What one step does to the registry version.
VersionDiscipline ==
    /\ store_version' >= store_version
    /\ \A c \in Callers :
          (StepOf(c) /\ call'[c].op = "rm")
          => IF WriteLands(c)
             THEN store_version = call[c].ver /\ store_version' = call[c].ver + 1
             ELSE store_version' = store_version
RmEnds(c) == StepOf(c) /\ call'[c].op = "rm" /\ call'[c].pc = "done"

\* C16 (as stated): the registry version never decreases, the removal is
\* written at the version read plus one and lands only while the store is at
\* the version read, a successful call has advanced the version by one and
\* every failed call has left it alone.
C16_FailedCallsLeaveVersion ==
    [][/\ VersionDiscipline
       /\ \A c \in Callers : RmEnds(c) => (call'[c].wrote <=> call'[c].res = "ok")]_vars

\* C16 (amended): as above, but only a call that fails before or at the
\* registry write has left the version alone; a call that fails in the
\* container teardown has already advanced it by one.
C16_VersionAdvancesWithTheWrite ==
    [][/\ VersionDiscipline
       /\ \A c \in Callers :
             RmEnds(c) => (call'[c].wrote <=> call'[c].res \in {"ok", "TeardownError"})]_vars

C16_Witness ==
    \E c, d \in Callers :
        /\ Finished(c, "rm") /\ call[c].res = "TeardownError" /\ call[c].wrote
        /\ Succeeded(d, "rm") /\ call[d].wrote /\ call[d].ver = call[c].ver + 1
        /\ store_version = call[d].ver + 1

\* Output record i of call c names the registry app id.
Identifies(c, i, id) ==
    /\ call[c].out[i].sign_key = store_apps[id].keys.owner_key
    /\ call[c].out[i].app_id = <<"Some", id>>
    /\ call[c].out[i].name = <<"Some", store_apps[id].info.name>>

\* C17: auth_apps_accessing_mutable_data identifies a principal from the
\* registry alone: a principal whose key is the owner key of a registry app is
\* emitted with that app's id and name whatever the app's state, also when
\* the app is revoked (access-container entry absent or empty).
C17_RevokedAppsStillIdentified ==
    \A c \in Callers :
        (Succeeded(c, "perms") /\ Fresh(c))
        => \A id \in DOMAIN store_apps :
              Key(store_apps[id].keys.owner_key) \in DOMAIN md_perms
              => \E i \in 1..Len(call[c].out) : Identifies(c, i, id)

C17_Witness ==
    \E c \in Callers :
        /\ Succeeded(c, "perms") /\ Fresh(c) /\ nonce # NoNonce
        /\ \E id \in DOMAIN store_apps :
              /\ ~EntryAbsent(id) /\ EntryEmpty(id)
              /\ \E i \in 1..Len(call[c].out) : Identifies(c, i, id)

\* C18: auth_rm_revoked_app never removes an app that is authenticated at
\* the moment its registry write lands: when the write lands, the app's
\* access-container entry is absent or empty.
C18_NeverRemovesAuthenticated ==
    [][\A c \in Callers : WriteLands(c) => EntryAbsentOrEmpty(call[c].app_id)]_vars

\* C19: a call of any of the four operations whose pipeline has run to its
\* end has invoked the callback exactly once, with success or with one error,
\* also when the error arose while the result list was being built (no list
\* is delivered then); a call still in flight has not invoked it.
C19_OneCallbackPerCall ==
    \A c \in Callers :
        IF call[c].pc = "done"
        THEN /\ call[c].op \in {"rm", "revoked", "registered", "perms"}
             /\ call[c].cbs = <<call[c].res>>
             /\ call[c].res # "ok" => call[c].out = << >>
        ELSE call[c].cbs = << >>

C19_Witness ==
    \E c, d \in Callers :
        /\ Finished(c, "registered") /\ call[c].res = "DeserializationError"
        /\ DOMAIN call[c].cfg = AppIds
        /\ call[c].cbs = <<"DeserializationError">>
        /\ Succeeded(d, "rm") /\ call[d].cbs = <<"ok">>

====
